---- MODULE Spec2Model ----
(***************************************************************************)
(* Model of src/lib/llm/LLMProvider.ts: the LLMProvider facade, which      *)
(* resolves a model identifier to a client and owns the shared LLM cache.  *)
(*                                                                         *)
(* The source file holds two definitions of the module: lines 1-219 (the   *)
(* two-segment "subProvider/subModel" grammar, twelve sub-providers) and   *)
(* lines 221-427 (the three-segment "aisdk/subProvider/subModel" grammar,  *)
(* three sub-providers, namespaced identifiers listed in the table).  The  *)
(* state variable `variant` says which of the two a deployment runs.       *)
(*                                                                         *)
(* A model identifier is a sequence of tokens: the token "/" is the        *)
(* separator character, every other token is a non-empty run of characters *)
(* without "/".  Str gives the string the tokens spell.                    *)
(***************************************************************************)
EXTENDS Integers, Sequences, FiniteSets, TLC

VARIABLES
    variant,        \* 1: lines 1-219, 2: lines 221-427
    enableCaching,  \* LLMProvider.enableCaching
    cache,          \* LLMProvider.cache: a cache reference or undefined
    store,          \* entries of the LLMCache instance the facade created
    trace,          \* the events the facade handed to its logger
    clients,        \* the clients callers still hold
    result          \* the last call and what it returned or threw

vars == <<variant, enableCaching, cache, store, trace, clients, result>>

(* Bounds of the model *)
MaxClients == 1
MaxTrace == 2

Slash == "/"

(* JavaScript's undefined *)
Undefined == [type |-> "undefined"]

(* The one LLMCache instance `new LLMCache(logger)` yields in the constructor *)
CacheInstance == [type |-> "LLMCache", id |-> "cache#1"]

----------------------------------------------------------------------------
(* Strings *)

RECURSIVE Str(_)
Str(t) == IF t = <<>> THEN "" ELSE Head(t) \o Str(Tail(t))

(* modelName.includes("/") *)
Includes(t) == \E i \in 1..Len(t) : t[i] = Slash

RECURSIVE Split(_)
(* modelName.split("/"): the strings between the separators, empty ones kept *)
Split(t) ==
    IF ~Includes(t) THEN <<Str(t)>>
    ELSE LET i == CHOOSE k \in 1..Len(t) :
                     /\ t[k] = Slash
                     /\ \A j \in 1..(k - 1) : t[j] # Slash
         IN  <<Str(SubSeq(t, 1, i - 1))>> \o Split(SubSeq(t, i + 1, Len(t)))

----------------------------------------------------------------------------
(* The identifier table *)

(* modelToProviderMap, lines 35-67: the entries in source order, <<key, value>> *)
modelToProviderMap_v1 ==
    <<
    <<<<"gpt-4.1">>, "openai">>,
    <<<<"gpt-4.1-mini">>, "openai">>,
    <<<<"gpt-4.1-nano">>, "openai">>,
    <<<<"o4-mini">>, "openai">>,
    <<<<"o3">>, "openai">>,
    <<<<"o3-mini">>, "openai">>,
    <<<<"o1">>, "openai">>,
    <<<<"o1-mini">>, "openai">>,
    <<<<"gpt-4o">>, "openai">>,
    <<<<"gpt-4o-mini">>, "openai">>,
    <<<<"gpt-4o-2024-08-06">>, "openai">>,
    <<<<"gpt-4.5-preview">>, "openai">>,
    <<<<"o1-preview">>, "openai">>,
    <<<<"claude-3-5-sonnet-latest">>, "anthropic">>,
    <<<<"claude-3-5-sonnet-20240620">>, "anthropic">>,
    <<<<"claude-3-5-sonnet-20241022">>, "anthropic">>,
    <<<<"claude-3-7-sonnet-20250219">>, "anthropic">>,
    <<<<"claude-3-7-sonnet-latest">>, "anthropic">>,
    <<<<"cerebras-llama-3.3-70b">>, "cerebras">>,
    <<<<"cerebras-llama-3.1-8b">>, "cerebras">>,
    <<<<"groq-llama-3.3-70b-versatile">>, "groq">>,
    <<<<"groq-llama-3.3-70b-specdec">>, "groq">>,
    <<<<"gemini-1.5-flash">>, "google">>,
    <<<<"gemini-1.5-pro">>, "google">>,
    <<<<"gemini-1.5-flash-8b">>, "google">>,
    <<<<"gemini-2.0-flash-lite">>, "google">>,
    <<<<"gemini-2.0-flash">>, "google">>,
    <<<<"gemini-2.5-flash-preview-04-17">>, "google">>,
    <<<<"gemini-2.5-pro-preview-03-25">>, "google">>
    >>

(* modelToProviderMap, lines 244-301: the entries in source order, <<key, value>> *)
modelToProviderMap_v2 ==
    <<
    <<<<"gpt-4.1">>, "openai">>,
    <<<<"gpt-4.1-mini">>, "openai">>,
    <<<<"gpt-4.1-nano">>, "openai">>,
    <<<<"o4-mini">>, "openai">>,
    <<<<"o3">>, "openai">>,
    <<<<"o3-mini">>, "openai">>,
    <<<<"o1">>, "openai">>,
    <<<<"o1-mini">>, "openai">>,
    <<<<"gpt-4o">>, "openai">>,
    <<<<"gpt-4o-mini">>, "openai">>,
    <<<<"gpt-4o-2024-08-06">>, "openai">>,
    <<<<"gpt-4.5-preview">>, "openai">>,
    <<<<"o1-preview">>, "openai">>,
    <<<<"claude-3-5-sonnet-latest">>, "anthropic">>,
    <<<<"claude-3-5-sonnet-20240620">>, "anthropic">>,
    <<<<"claude-3-5-sonnet-20241022">>, "anthropic">>,
    <<<<"claude-3-7-sonnet-20250219">>, "anthropic">>,
    <<<<"claude-3-7-sonnet-latest">>, "anthropic">>,
    <<<<"cerebras-llama-3.3-70b">>, "cerebras">>,
    <<<<"cerebras-llama-3.1-8b">>, "cerebras">>,
    <<<<"groq-llama-3.3-70b-versatile">>, "groq">>,
    <<<<"groq-llama-3.3-70b-specdec">>, "groq">>,
    <<<<"gemini-1.5-flash">>, "google">>,
    <<<<"gemini-1.5-pro">>, "google">>,
    <<<<"gemini-1.5-flash-8b">>, "google">>,
    <<<<"gemini-2.0-flash-lite">>, "google">>,
    <<<<"gemini-2.0-flash">>, "google">>,
    <<<<"gemini-2.5-flash-preview-04-17">>, "google">>,
    <<<<"gemini-2.5-pro-preview-03-25">>, "google">>,
    <<<<"aisdk", Slash, "anthropic", Slash, "claude-3-5-sonnet-latest">>, "aisdk">>,
    <<<<"aisdk", Slash, "anthropic", Slash, "claude-3-5-sonnet-20240620">>, "aisdk">>,
    <<<<"aisdk", Slash, "anthropicclaude-3-5-sonnet-20241022">>, "aisdk">>,
    <<<<"aisdk", Slash, "anthropic", Slash, "claude-3-7-sonnet-20250219">>, "aisdk">>,
    <<<<"aisdk", Slash, "anthropic", Slash, "claude-3-7-sonnet-latest">>, "aisdk">>,
    <<<<"aisdk", Slash, "google", Slash, "gemini-1.5-flash">>, "aisdk">>,
    <<<<"aisdk", Slash, "google", Slash, "gemini-1.5-pro">>, "aisdk">>,
    <<<<"aisdk", Slash, "google", Slash, "gemini-1.5-flash-8b">>, "aisdk">>,
    <<<<"aisdk", Slash, "google", Slash, "gemini-2.0-flash-lite">>, "aisdk">>,
    <<<<"aisdk", Slash, "google", Slash, "gemini-2.0-flash">>, "aisdk">>,
    <<<<"aisdk", Slash, "google", Slash, "gemini-2.5-flash-preview-04-17">>, "aisdk">>,
    <<<<"aisdk", Slash, "google", Slash, "gemini-2.5-pro-preview-03-25">>, "aisdk">>,
    <<<<"aisdk", Slash, "openai", Slash, "gpt-4.1">>, "aisdk">>,
    <<<<"aisdk", Slash, "openai", Slash, "gpt-4.1-mini">>, "aisdk">>,
    <<<<"aisdk", Slash, "openai", Slash, "gpt-4.1-nano">>, "aisdk">>,
    <<<<"aisdk", Slash, "openai", Slash, "o4-mini">>, "aisdk">>,
    <<<<"aisdk", Slash, "openai", Slash, "o3">>, "aisdk">>,
    <<<<"aisdk", Slash, "openai", Slash, "o3-mini">>, "aisdk">>,
    <<<<"aisdk", Slash, "openai", Slash, "o1">>, "aisdk">>,
    <<<<"aisdk", Slash, "openai", Slash, "o1-mini">>, "aisdk">>,
    <<<<"aisdk", Slash, "openai", Slash, "gpt-4o">>, "aisdk">>,
    <<<<"aisdk", Slash, "openai", Slash, "gpt-4o-mini">>, "aisdk">>,
    <<<<"aisdk", Slash, "openai", Slash, "gpt-4o-2024-08-06">>, "aisdk">>,
    <<<<"aisdk", Slash, "openai", Slash, "gpt-4.5-preview">>, "aisdk">>,
    <<<<"aisdk", Slash, "openai", Slash, "o1-preview">>, "aisdk">>
    >>

(* Object.keys(modelToProviderMap): the own keys, in insertion order *)
ObjectKeys(map) == [i \in 1..Len(map) |-> Str(map[i][1])]

(* Object.values(modelToProviderMap) *)
ObjectValues(map) == [i \in 1..Len(map) |-> map[i][2]]

(* The table as an object: its own keys in order, and the value of each *)
ObjectLiteral(map) ==
    [keys |-> ObjectKeys(map),
     own  |-> [s \in {Str(map[i][1]) : i \in 1..Len(map)} |->
                  map[CHOOSE i \in 1..Len(map) : Str(map[i][1]) = s][2]]]

Table_v1 == ObjectLiteral(modelToProviderMap_v1)
Table_v2 == ObjectLiteral(modelToProviderMap_v2)

modelToProviderMap == IF variant = 1 THEN Table_v1 ELSE Table_v2

(* The properties every object literal inherits from Object.prototype; *)
(* each holds a function or an object, never a provider name.          *)
ObjectPrototypeProperties ==
    {"constructor", "toString", "toLocaleString", "valueOf", "hasOwnProperty",
     "isPrototypeOf", "propertyIsEnumerable", "__proto__", "__defineGetter__",
     "__defineSetter__", "__lookupGetter__", "__lookupSetter__"}

(* Whether the string is an own key of the table *)
HasOwn(obj, s) == s \in DOMAIN obj.own

(* obj[name]: the own entry, else what the prototype holds, else undefined *)
PropertyGet(obj, s) ==
    IF HasOwn(obj, s) THEN [type |-> "string", value |-> obj.own[s]]
    ELSE IF s \in ObjectPrototypeProperties
         THEN [type |-> "inherited", value |-> s]
         ELSE [type |-> "undefined"]

(* !provider *)
Falsy(v) == v.type = "undefined" \/ (v.type = "string" /\ v.value = "")

(* [...new Set(Object.values(modelToProviderMap))]: the values, first occurrences only *)
UniqueValues(values) ==
    LET RECURSIVE Build(_)
        Build(i) ==
            IF i > Len(values) THEN <<>>
            ELSE (IF \A j \in 1..(i - 1) : values[j] # values[i]
                  THEN <<values[i]>> ELSE <<>>) \o Build(i + 1)
    IN  Build(1)

Values_v1 == UniqueValues(ObjectValues(modelToProviderMap_v1))
Values_v2 == UniqueValues(ObjectValues(modelToProviderMap_v2))

----------------------------------------------------------------------------
(* Objects the facade constructs *)

StringValue(s) == [type |-> "string", value |-> s]

(* A thrown error: its class, and the message or the list its constructor is given *)
ErrorValue(class, message, payload) ==
    [type |-> "error", class |-> class, message |-> message, payload |-> payload]

(* The handle a vendor SDK constructor (openai(subModelName), ...) returns *)
LanguageModel(sdk, subModelName) ==
    [type |-> "LanguageModel", sdk |-> sdk, modelId |-> subModelName]

(* new AISdkClient({model, logger, enableCaching, cache}) *)
AISdkClient(languageModel) ==
    [type |-> "client", class |-> "AISdkClient", logger |-> "logger",
     enableCaching |-> enableCaching, cache |-> cache,
     model |-> languageModel, modelName |-> Undefined, clientOptions |-> Undefined]

(* Mutant: the vendor clients are built without the cache *)
VendorClient_noCache(class, modelName, clientOptions) ==
    [type |-> "client", class |-> class, logger |-> "logger",
     enableCaching |-> enableCaching, cache |-> Undefined,
     model |-> Undefined, modelName |-> StringValue(Str(modelName)),
     clientOptions |-> clientOptions]

(* new <class>({logger, enableCaching, cache, modelName, clientOptions}) *)
VendorClient(class, modelName, clientOptions) ==
    [type |-> "client", class |-> class, logger |-> "logger",
     enableCaching |-> enableCaching, cache |-> cache,
     model |-> Undefined, modelName |-> StringValue(Str(modelName)),
     clientOptions |-> clientOptions]

Return(v) == [outcome |-> "return", value |-> v, built |-> IF v.type = "client" THEN 1 ELSE 0]
Throw(e) == [outcome |-> "throw", value |-> e, built |-> 0]

----------------------------------------------------------------------------
(* getClient *)

(* The switch over subProvider, lines 112-151: case label -> the SDK whose *)
(* constructor builds the handle                                           *)
SubProviderSdk_v1 ==
    [openai |-> "@ai-sdk/openai", anthropic |-> "@ai-sdk/anthropic",
     google |-> "@ai-sdk/google", xai |-> "@ai-sdk/xai", azure |-> "@ai-sdk/azure",
     groq |-> "@ai-sdk/groq", cerebras |-> "@ai-sdk/cerebras",
     togetherai |-> "@ai-sdk/togetherai", mistral |-> "@ai-sdk/mistral",
     deepseek |-> "@ai-sdk/deepseek", perplexity |-> "@ai-sdk/perplexity",
     ollama |-> "ollama-ai-provider"]

(* The switch over subProvider, lines 351-363 *)
SubProviderSdk_v2 ==
    [openai |-> "@ai-sdk/openai", anthropic |-> "@ai-sdk/anthropic",
     google |-> "@ai-sdk/google"]

(* The switch over provider, lines 166-211 and 374-419: case label -> client class *)
ProviderClient ==
    [openai |-> "OpenAIClient", anthropic |-> "AnthropicClient",
     cerebras |-> "CerebrasClient", groq |-> "GroqClient", google |-> "GoogleClient"]

(* switch (subProvider) { ... } return new AISdkClient(...) *)
ResolveSubProvider(sdk, subProvider, subModelName) ==
    IF subProvider \in DOMAIN sdk
    THEN Return(AISdkClient(LanguageModel(sdk[subProvider], subModelName)))
    ELSE Throw(ErrorValue("Error", "Unsupported aisdk sub-provider: " \o subProvider, <<>>))

(* switch (provider) { ... } *)
ResolveProvider(values, provider, modelName, clientOptions) ==
    IF provider.type = "string" /\ provider.value \in DOMAIN ProviderClient
    THEN Return(VendorClient(ProviderClient[provider.value], modelName, clientOptions))
    ELSE Throw(ErrorValue("UnsupportedModelProviderError", "", values))

(* parts.length !== 2, line 106; parts.length !== 3, line 344 *)
SegmentCount_v1 == 2
SegmentCount_v2 == 3

(* getClient, lines 99-212 *)
getClient_v1(modelName, clientOptions) ==
    IF Includes(modelName)
    THEN LET parts == Split(modelName)
         IN  IF Len(parts) # SegmentCount_v1
             THEN Throw(ErrorValue("Error",
                                   "Invalid aisdk model format: " \o Str(modelName), <<>>))
             ELSE ResolveSubProvider(SubProviderSdk_v1, parts[1], parts[2])
    ELSE LET provider == PropertyGet(Table_v1, Str(modelName))
         IN  IF Falsy(provider)
             THEN Throw(ErrorValue("UnsupportedModelError", "", Table_v1.keys))
             ELSE ResolveProvider(Values_v1, provider, modelName, clientOptions)

(* getClient, lines 333-420 *)
getClient_v2(modelName, clientOptions) ==
    LET provider == PropertyGet(Table_v2, Str(modelName))
    IN  IF Falsy(provider)
        THEN Throw(ErrorValue("UnsupportedModelError", "", Table_v2.keys))
        ELSE IF provider.type = "string" /\ provider.value = "aisdk"
        THEN LET parts == Split(modelName)
             IN  IF Len(parts) # SegmentCount_v2
                 THEN Throw(ErrorValue("Error",
                                       "Invalid aisdk model format: " \o Str(modelName), <<>>))
                 ELSE ResolveSubProvider(SubProviderSdk_v2, parts[2], parts[3])
        ELSE ResolveProvider(Values_v2, provider, modelName, clientOptions)

getClient(modelName, clientOptions) ==
    IF variant = 1 THEN getClient_v1(modelName, clientOptions)
    ELSE getClient_v2(modelName, clientOptions)

(* static getModelProvider, lines 214-218 and 422-426 *)
getModelProvider(modelName) == Return(PropertyGet(modelToProviderMap, Str(modelName)))

----------------------------------------------------------------------------
(* The cache *)

(* Mutant: the constructor never creates the cache *)
NewCache_never(caching) == Undefined

(* Mutant: the constructor creates the cache whatever the flag says *)
NewCache_always(caching) == CacheInstance

(* this.cache = enableCaching ? new LLMCache(logger) : undefined *)
NewCache(caching) == IF caching THEN CacheInstance ELSE Undefined

(* LLMCache.deleteCacheForRequestId: drops the entries tagged with the request id *)
deleteCacheForRequestId(entries, requestId) ==
    {e \in entries : e.requestId # requestId}

(* The trace event cleanRequestCache hands to the logger, lines 85-95 *)
CleanEvent(requestId) ==
    [category |-> "llm_cache", message |-> "cleaning up cache", level |-> 1,
     auxiliary |-> [requestId |-> [value |-> requestId, type |-> "string"]]]

----------------------------------------------------------------------------
(* Inputs *)

RECURSIVE SeqRange(_)
SeqRange(s) == IF s = <<>> THEN {} ELSE {Head(s)} \cup SeqRange(Tail(s))

TableKeys == {p[1] : p \in SeqRange(modelToProviderMap_v1) \cup SeqRange(modelToProviderMap_v2)}

(* Identifiers outside the tables: flat, namespaced, malformed *)
Probes ==
    { <<>>, <<"not-a-real-model">>, <<"gpt-5">>, <<"constructor">>, <<"toString">>,
      <<"__proto__">>, <<"aisdk">>,
      <<Slash>>, <<"openai", Slash>>, <<Slash, "gpt-4o">>, <<"aisdk", Slash>>,
      <<"openai", Slash, "gpt-4.1">>, <<"openai", Slash, "gpt-5">>,
      <<"anthropic", Slash, "claude-3-7-sonnet-latest">>,
      <<"google", Slash, "gemini-2.0-flash">>, <<"xai", Slash, "grok-3">>,
      <<"azure", Slash, "gpt-4o">>, <<"groq", Slash, "llama-3.3-70b">>,
      <<"cerebras", Slash, "llama-3.3-70b">>, <<"togetherai", Slash, "llama-3.3-70b">>,
      <<"mistral", Slash, "mistral-large">>, <<"deepseek", Slash, "deepseek-chat">>,
      <<"perplexity", Slash, "sonar">>, <<"ollama", Slash, "llama3">>,
      <<"bogus", Slash, "model">>, <<"OpenAI", Slash, "gpt-4o">>,
      <<"aisdk", Slash, "openai">>,
      <<"aisdk", Slash, "openai", Slash, "gpt-5">>,
      <<"aisdk", Slash, "xai", Slash, "grok-3">>,
      <<"aisdk", Slash, "openai", Slash>>, <<"aisdk", Slash, Slash, "gpt-4o">>,
      <<Slash, "openai", Slash, "gpt-4o">>,
      <<"other", Slash, "openai", Slash, "gpt-4o">>,
      <<"openai", Slash, Slash>>, <<Slash, Slash>>,
      <<"aisdk", Slash, "openai", Slash, "gpt-4o", Slash, "x">>,
      <<"bogus", Slash, "weird", Slash, "path", Slash, "too", Slash, "long">> }

ModelNames == TableKeys \cup Probes

(* The identifiers a session asks clients for: one per client class, and failures *)
SessionModels ==
    { <<"gpt-4o">>, <<"claude-3-7-sonnet-latest">>, <<"cerebras-llama-3.3-70b">>,
      <<"groq-llama-3.3-70b-versatile">>, <<"gemini-2.0-flash">>,
      <<"openai", Slash, "gpt-4.1">>, <<"aisdk", Slash, "openai", Slash, "gpt-4o">>,
      <<"not-a-real-model">> }

ClientOptionsSet == {Undefined, [type |-> "object", value |-> "clientOptions"]}

RequestIds == {<<"req-1">>, <<"req-2">>}

Fingerprints == {"hash-a", "hash-b"}

----------------------------------------------------------------------------
(* The state machine *)

Call(op, arg, options, r) ==
    [op |-> op, arg |-> arg, options |-> options,
     outcome |-> r.outcome, value |-> r.value, built |-> r.built]

(* constructor, lines 74-78 and 308-312 *)
Init ==
    /\ variant \in {1, 2}
    /\ enableCaching \in BOOLEAN
    /\ cache = NewCache(enableCaching)
    /\ store = {}
    /\ trace = <<>>
    /\ clients = {}
    /\ result = Call("constructor", <<>>, Undefined, Return(Undefined))

(* getClient(modelName, clientOptions); the caller keeps the client or drops it *)
GetClient(modelName, clientOptions, keep) ==
    LET r == getClient(modelName, clientOptions)
    IN  /\ keep => (r.outcome = "return" /\ Cardinality(clients) < MaxClients)
        /\ result' = Call("getClient", modelName, clientOptions, r)
        /\ clients' = IF keep THEN clients \cup {r.value} ELSE clients
        /\ UNCHANGED <<variant, enableCaching, cache, store, trace>>

(* LLMProvider.getModelProvider(modelName) *)
GetModelProvider(modelName) ==
    /\ result' = Call("getModelProvider", modelName, Undefined, getModelProvider(modelName))
    /\ UNCHANGED <<variant, enableCaching, cache, store, trace, clients>>

(* Mutant: cleanRequestCache logs the event and deletes nothing *)
CleanRequestCache_noDelete(requestId) ==
    IF ~enableCaching
    THEN /\ result' = Call("cleanRequestCache", requestId, Undefined, Return(Undefined))
         /\ UNCHANGED <<variant, enableCaching, cache, store, trace, clients>>
    ELSE /\ Len(trace) < MaxTrace
         /\ trace' = Append(trace, CleanEvent(Str(requestId)))
         /\ result' = Call("cleanRequestCache", requestId, Undefined, Return(Undefined))
         /\ UNCHANGED <<variant, enableCaching, cache, store, clients>>

(* cleanRequestCache(requestId), lines 80-97 and 314-331 *)
CleanRequestCache(requestId) ==
    IF ~enableCaching
    THEN /\ result' = Call("cleanRequestCache", requestId, Undefined, Return(Undefined))
         /\ UNCHANGED <<variant, enableCaching, cache, store, trace, clients>>
    ELSE /\ Len(trace) < MaxTrace
         /\ trace' = Append(trace, CleanEvent(Str(requestId)))
         /\ IF cache = Undefined
            THEN /\ result' = Call("cleanRequestCache", requestId, Undefined,
                                   Throw(ErrorValue("TypeError", "", <<>>)))
                 /\ store' = store
            ELSE /\ result' = Call("cleanRequestCache", requestId, Undefined,
                                   Return(Undefined))
                 /\ store' = deleteCacheForRequestId(store, Str(requestId))
         /\ UNCHANGED <<variant, enableCaching, cache, clients>>

(* A client a caller holds writes a response to the cache it was given *)
CacheSet(client, fingerprint, requestId) ==
    /\ client \in clients
    /\ client.enableCaching
    /\ client.cache = CacheInstance
    /\ store' = store \cup {[key |-> fingerprint, requestId |-> Str(requestId)]}
    /\ result' = Call("cacheSet", requestId, Undefined, Return(Undefined))
    /\ UNCHANGED <<variant, enableCaching, cache, trace, clients>>

Next ==
    \/ \E m \in SessionModels, keep \in BOOLEAN : GetClient(m, Undefined, keep)
    \/ \E r \in RequestIds : CleanRequestCache(r)
    \/ \E c \in clients, f \in Fingerprints, r \in RequestIds : CacheSet(c, f, r)

Spec == Init /\ [][Next]_vars

(* Resolution alone, over every identifier of the tables and the probes *)
NextResolve ==
    \/ \E m \in ModelNames, o \in ClientOptionsSet : GetClient(m, o, FALSE)
    \/ \E m \in ModelNames : GetModelProvider(m)

SpecResolve == Init /\ [][NextResolve]_vars

----------------------------------------------------------------------------
(* What the claims speak of *)

(* The entries the source publishes for the running variant *)
Published == IF variant = 1 THEN modelToProviderMap_v1 ELSE modelToProviderMap_v2

IsKey(t) == \E i \in 1..Len(Published) : Published[i][1] = t

PublishedKind(t) == Published[CHOOSE i \in 1..Len(Published) : Published[i][1] = t][2]

SupportedSegments == IF variant = 1 THEN SegmentCount_v1 ELSE SegmentCount_v2

RecognizedVendors ==
    IF variant = 1 THEN DOMAIN SubProviderSdk_v1 ELSE DOMAIN SubProviderSdk_v2

(* Of an identifier with the supported segment count: its last two segments *)
SubProviderOf(t) == Split(t)[SupportedSegments - 1]
SubModelOf(t) == Split(t)[SupportedSegments]

HasEmptySegment(t) == \E i \in 1..Len(Split(t)) : Split(t)[i] = ""

Called(op) == result.op = op

ThrewClass(class) ==
    result.outcome = "throw" /\ result.value.type = "error" /\ result.value.class = class

MalformedIdentifierError ==
    /\ ThrewClass("Error")
    /\ result.value.message = "Invalid aisdk model format: " \o Str(result.arg)

UnsupportedSubProviderError(subProvider) ==
    /\ ThrewClass("Error")
    /\ result.value.message = "Unsupported aisdk sub-provider: " \o subProvider

ReturnedClient == result.outcome = "return" /\ result.value.type = "client"

----------------------------------------------------------------------------
(* Claims about resolution, under SpecResolve *)

(* C1: for every key of the published table getModelProvider returns exactly  *)
(* the published provider kind; for an identifier that is not a key it        *)
(* returns an absent value and does not throw.                                *)
C1_GetModelProviderRoundTrip ==
    Called("getModelProvider") =>
        /\ result.outcome = "return"
        /\ IF IsKey(result.arg)
           THEN result.value = StringValue(PublishedKind(result.arg))
           ELSE result.value = Undefined

(* C2: for an identifier that is not a key and holds no "/", getClient fails  *)
(* with UnsupportedModel, constructs no client, and the payload is exactly    *)
(* the set of the table's keys.                                               *)
C2_UnknownFlatIsUnsupportedModel ==
    (Called("getClient") /\ ~IsKey(result.arg) /\ ~Includes(result.arg)) =>
        /\ ThrewClass("UnsupportedModelError")
        /\ result.built = 0
        /\ \A i \in 1..Len(Published) :
              \E j \in 1..Len(result.value.payload) :
                 result.value.payload[j] = Str(Published[i][1])
        /\ \A j \in 1..Len(result.value.payload) :
              \E i \in 1..Len(Published) :
                 result.value.payload[j] = Str(Published[i][1])

(* C3: for every namespaced identifier with the supported segment count whose *)
(* sub-provider is recognized, key of the table or not, getClient returns the *)
(* generic client wrapping the handle built for that sub-provider and         *)
(* sub-model.                                                                 *)
C3_RecognizedNamespacedIsGeneric ==
    (/\ Called("getClient")
     /\ Includes(result.arg)
     /\ Len(Split(result.arg)) = SupportedSegments
     /\ ~HasEmptySegment(result.arg)
     /\ SubProviderOf(result.arg) \in RecognizedVendors) =>
        /\ ReturnedClient
        /\ result.value.class = "AISdkClient"
        /\ result.value.model.type = "LanguageModel"
        /\ result.value.model.modelId = SubModelOf(result.arg)

(* C4: for a namespaced identifier with the supported segment count whose     *)
(* sub-provider is not recognized, getClient fails with the unsupported-sub-  *)
(* provider error, which is neither the malformed-identifier error nor        *)
(* UnsupportedModel, and constructs no client.                                *)
C4_UnrecognizedSubProviderError ==
    (/\ Called("getClient")
     /\ Includes(result.arg)
     /\ Len(Split(result.arg)) = SupportedSegments
     /\ SubProviderOf(result.arg) \notin RecognizedVendors) =>
        /\ UnsupportedSubProviderError(SubProviderOf(result.arg))
        /\ ~MalformedIdentifierError
        /\ ~ThrewClass("UnsupportedModelError")
        /\ result.built = 0

(* C5: for every identifier that holds a "/" and whose segment count is not   *)
(* the supported one, getClient fails with the malformed-identifier error,    *)
(* never with UnsupportedModel.                                               *)
C5_WrongSegmentCountIsMalformed ==
    (/\ Called("getClient")
     /\ Includes(result.arg)
     /\ Len(Split(result.arg)) # SupportedSegments) =>
        /\ MalformedIdentifierError
        /\ ~ThrewClass("UnsupportedModelError")

(* C10: for an identifier that holds a "/" and has an empty segment,          *)
(* getClient returns no client.                                               *)
C10_EmptySegmentRejected ==
    (Called("getClient") /\ Includes(result.arg) /\ HasEmptySegment(result.arg)) =>
        /\ result.outcome = "throw"
        /\ result.built = 0

----------------------------------------------------------------------------
(* Claims about the cache, under Spec *)

EntriesOf(entries, requestId) == {e \in entries : e.requestId = requestId}

(* C6: cleanRequestCache never raises, caching enabled or not, entries for    *)
(* the id present or not; and a second call in succession with the same id    *)
(* leaves the cache contents as the first call left them.                     *)
C6_CleanNeverRaisesAndIsIdempotent ==
    [][ result'.op = "cleanRequestCache" =>
           /\ result'.outcome = "return"
           /\ (result.op = "cleanRequestCache" /\ result.arg = result'.arg)
                 => store' = store ]_vars

(* Two cleanups of the same request id were logged, the last call is one of   *)
(* them, and entries of another request are still cached.                     *)
C6_Witness ==
    /\ enableCaching
    /\ Called("cleanRequestCache")
    /\ Len(trace) >= 2
    /\ trace[Len(trace)] = trace[Len(trace) - 1]
    /\ trace[Len(trace)] = CleanEvent(Str(result.arg))
    /\ store # {}

(* C7: with caching disabled the facade holds no cache, every client it       *)
(* constructs receives an absent cache reference, and cleanRequestCache       *)
(* emits no trace event and deletes nothing.                                  *)
C7_DisabledCachingIsInert ==
    ~enableCaching =>
        /\ cache = Undefined
        /\ \A c \in clients : c.cache = Undefined
        /\ ReturnedClient => result.value.cache = Undefined
        /\ trace = <<>>
        /\ store = {}

(* Caching is off, a caller holds a client, and cleanRequestCache just ran *)
C7_Witness ==
    /\ ~enableCaching
    /\ clients # {}
    /\ Called("cleanRequestCache")
    /\ result.outcome = "return"

(* C8: with caching enabled every client the facade constructs, of every      *)
(* class and after any calls, failed ones included, receives the cache the    *)
(* facade created at construction, which is never replaced.                   *)
C8_ClientsShareTheCache ==
    enableCaching =>
        /\ cache = CacheInstance
        /\ \A c \in clients : c.cache = cache
        /\ ReturnedClient => result.value.cache = cache

(* After a cleanup, a caller holds a generic client and getClient has just    *)
(* returned a vendor client: both carry the facade's cache.                   *)
C8_Witness ==
    /\ enableCaching
    /\ trace # <<>>
    /\ Called("getClient")
    /\ ReturnedClient
    /\ result.value.class = "GoogleClient"
    /\ \E c \in clients : c.class = "AISdkClient" /\ c.cache = result.value.cache

(* C9: however cache writes and cleanups interleave, cleanRequestCache(R)     *)
(* removes every entry tagged R and leaves every entry tagged with another    *)
(* request id as it was.                                                      *)
C9_CleanIsRequestScoped ==
    [][ (result'.op = "cleanRequestCache" /\ enableCaching) =>
           /\ EntriesOf(store', Str(result'.arg)) = {}
           /\ \A e \in store : e.requestId # Str(result'.arg) => e \in store'
           /\ store' \subseteq store ]_vars

(* A cleanup ran while two entries of the other request were cached; they     *)
(* are still there and nothing of the cleaned request is.                     *)
C9_Witness ==
    /\ enableCaching
    /\ Called("cleanRequestCache")
    /\ Cardinality(store) = 2
    /\ \A e \in store : e.requestId # Str(result.arg)
    /\ Len(trace) = 1

====
